---- MODULE Spec2Model ----
(***************************************************************************)
(* Model of the polling and reconnection engine of PingModbusTool:        *)
(* ModbusService (src/src/main/modbus-service.ts) and PingService          *)
(* (src/unnamed/part_001), running on the single-threaded Node event loop. *)
(* Every action is one run-to-completion piece of a callback: from an      *)
(* event (timer, promise settlement, IPC call) to the next await.          *)
(***************************************************************************)
EXTENDS Integers, Sequences, FiniteSets, TLC

\* ---------------------------------------------------------------- bounds
MaxTicks == 4
MaxInFlight == 2
MaxWriteFails == 1
DiscCap == 2
MaxCloses == 2
MaxPairTicks == 3
MaxRecords == 2
MaxImports == 3
MaxAppends == 3

\* ------------------------------------------------------ program constants
MAX_CONSECUTIVE_ERRORS == 3
Null == -1

MIds == {"m1"}
Values == {7}
PIds == {"p1"}
Calls == {1, 2}

\* the session ids that exist; the runs with one session of a service use
\* MIds and PIds, the runs with two sessions side by side use all of them
AllMIds == {"m1", "m2"}
AllPIds == {"p1", "p2"}
Times == {3}

VARIABLES
    sessions,     \* ModbusService.sessions: the ids in the registry Map
    created,      \* ids whose ModbusSession object has been constructed
    startState,   \* per id: "fresh" | "connecting" | "failed" | "started"
    sess,         \* per id: the fields of its ModbusSession object
    timers,       \* ids whose setInterval timer is armed
    ticks,        \* per id: number of firings of its interval timer so far
    inflight,     \* per id: the tick callbacks suspended at an await
    connecting,   \* per id: connectTCP calls of reconnect() still pending
    retryTimers,  \* per id: pending setTimeout(reconnect, RECONNECT_DELAY)
    inReconnect,  \* ids whose reconnect() run is between line 49 and line 53
    log,          \* per id: records appended to the session's CSV log
    notes,        \* per id: payloads of the modbus:data notifications sent
    connNote,     \* per id: history of the connectivity notifications sent
    psessions,    \* PingService.sessions: the ids in the registry Map
    pstarted,     \* ids that have been passed to startPing
    psess,        \* per id: the fields of its PingSession object
    ptimers,      \* ids whose setInterval timer is armed
    pticks,       \* per id: number of firings of its interval timer so far
    pinflight,    \* per id: the tick callbacks suspended at an await
    plog,         \* per id: records appended to the session's CSV log
    pnotes,       \* per id: payloads of the ping:data notifications sent
    calls,        \* per startModbus call: how far it has got, and its id
    objs,         \* per startModbus call: the session object it constructed
    registry,     \* per id: the call whose object the registry Map holds, or 0
    rticks,       \* per startModbus call: firings of its object's timer
    stopped,      \* per id: stopModbus has returned for a registered session
    wfails,       \* number of log appends that have failed so far
    recording,    \* whether log and notes are kept (fixed by the initial state)
    early,        \* the early return taken by the handler that ran last, if any
    dir,          \* StorageService.sessionsDir: per file name, the file
    writer,       \* per session log: the state of its csv-writer object
    written,      \* per session log: the records whose write has completed
    torn,         \* the session logs that end in a row cut short by a crash
    lastRead,     \* what the last readPingSession / readModbusSession gave
    lastImport,   \* what the last importSession call gave
    appends       \* the writeRecords calls of the ticks that have not resolved

mvars == <<sessions, created, startState, sess, timers, ticks, inflight,
           connecting, retryTimers, inReconnect, log, notes, connNote>>

pvars == <<psessions, pstarted, psess, ptimers, pticks, pinflight, plog,
           pnotes>>

rvars == <<calls, objs, registry, rticks, stopped>>

svars == <<dir, writer, written, torn, lastRead, lastImport, appends>>

vars == <<mvars, pvars, rvars, svars, wfails, recording, early>>

\* ------------------------------------------------------------ data model
NoRecord == [tick |-> 0, value |-> Null, status |-> "none"]

NewStats == [reads |-> 0, errors |-> 0, lastValue |-> Null]

\* lines 106-122; config, writer and filename are what startModbus was given
\* and what createModbusSession returned at lines 95-99
NewSession ==
    [config |-> "config", writer |-> "writer", filename |-> "filename",
     active |-> TRUE, interval |-> TRUE, clientOpen |-> TRUE, closes |-> 0,
     gen |-> 0,
     connected |-> TRUE, reconnecting |-> FALSE, consecutiveErrors |-> 0,
     stats |-> NewStats]

NoSession ==
    [config |-> "none", writer |-> "none", filename |-> "none",
     active |-> FALSE, interval |-> FALSE, clientOpen |-> FALSE, closes |-> 0,
     gen |-> 0,
     connected |-> FALSE, reconnecting |-> FALSE, consecutiveErrors |-> 0,
     stats |-> NewStats]

NoConnNote == [last |-> "none", disc |-> 0, conn |-> 0]

SuccessRecord(n, v) == [tick |-> n, value |-> v, status |-> "success"]

ErrorRecord(n) == [tick |-> n, value |-> Null, status |-> "error"]

DataNote(s, rec) ==
    [record |-> rec, stats |-> sess[s].stats, connected |-> sess[s].connected]

Bump(k) == IF k < DiscCap THEN k + 1 ELSE DiscCap

Idle == inReconnect = {}

NoEarly == [op |-> "none", s |-> "none"]

Returned(op, s) == [op |-> op, s |-> s]

NewPingStats == [sent |-> 0, received |-> 0, lost |-> 0, totalTime |-> 0]

NewPingSession == [active |-> TRUE, interval |-> TRUE, stats |-> NewPingStats]

NoPingSession == [active |-> FALSE, interval |-> FALSE, stats |-> NewPingStats]

NoPingRecord == [tick |-> 0, time |-> Null, status |-> "none"]

PingRecord(n, tm, st) == [tick |-> n, time |-> tm, status |-> st]

PingNote(s, rec) == [record |-> rec, stats |-> psess[s].stats]

\* a startModbus call not made yet, and the session object of a call that
\* has not constructed one
NoCall == [pc |-> "idle", id |-> "none"]

NoObject == [made |-> FALSE, active |-> FALSE, interval |-> FALSE,
             timer |-> FALSE, clientOpen |-> FALSE]

NewObject == [made |-> TRUE, active |-> TRUE, interval |-> TRUE,
              timer |-> TRUE, clientOpen |-> TRUE]

\* an append to the session's log, and a modbus:data notification
AppendLog(s, rec) ==
    IF recording THEN [log EXCEPT ![s] = Append(@, rec)] ELSE log

SendData(s, rec) ==
    IF recording THEN [notes EXCEPT ![s] = Append(@, DataNote(s, rec))]
    ELSE notes

\* ------------------------------------------- ModbusService: pure helpers
\* a guard that looks at `reconnecting` only
TickGuardIgnoresConnected(se) == ~se.reconnecting

\* line 126: the tick proceeds unless reconnecting or not connected
TickGuard(se) == ~(se.reconnecting \/ ~se.connected)

\* a read continuation that forgets to reset the error count
ReadSuccessKeepsErrors(se, v) ==
    [se EXCEPT !.stats.reads = @ + 1,
               !.stats.lastValue = v]

\* lines 141-144: the continuation of a resolved register read
ReadSuccess(se, v) ==
    [se EXCEPT !.consecutiveErrors = 0,
               !.stats.reads = @ + 1,
               !.stats.lastValue = v]

\* lines 165-166: the catch branch of the tick
ReadError(se) ==
    [se EXCEPT !.stats.errors = @ + 1,
               !.consecutiveErrors = @ + 1]

\* line 187
ShouldReconnect(se) ==
    se.consecutiveErrors >= MAX_CONSECUTIVE_ERRORS /\ ~se.reconnecting

\* a guard that forgets to look at `active`
ReconnectGuardIgnoresActive(s, se) == s \in sessions /\ ~se.reconnecting

\* lines 42-45: reconnect() goes on only for a registered, active session
\* that is not already reconnecting
ReconnectGuard(s, se) == s \in sessions /\ se.active /\ ~se.reconnecting

\* an entry into Reconnecting that leaves `connected` as it was
EnterReconnectKeepsConnected(se) == [se EXCEPT !.reconnecting = TRUE]

\* lines 47-48
EnterReconnect(se) == [se EXCEPT !.reconnecting = TRUE, !.connected = FALSE]

\* lines 55-59, 217-219, 235-237: session.client.close(); `closes` counts
\* the close() calls made on the handle session.client refers to
CloseClient(se) ==
    [se EXCEPT !.clientOpen = FALSE,
               !.closes = IF @ < MaxCloses THEN @ + 1 ELSE @]

\* a successful reconnect that starts the stats afresh
ReconnectSuccessResetsStats(se) ==
    [se EXCEPT !.clientOpen = TRUE, !.closes = 0, !.gen = @ + 1,
               !.connected = TRUE,
               !.reconnecting = FALSE, !.consecutiveErrors = 0,
               !.stats = NewStats]

\* a successful reconnect that opens a new log for the session
ReconnectSuccessNewLog(se) ==
    [se EXCEPT !.clientOpen = TRUE, !.closes = 0, !.gen = @ + 1,
               !.connected = TRUE,
               !.reconnecting = FALSE, !.consecutiveErrors = 0,
               !.writer = "writer2", !.filename = "filename2"]

\* lines 68-71
ReconnectSuccess(se) ==
    [se EXCEPT !.clientOpen = TRUE, !.closes = 0, !.gen = @ + 1,
               !.connected = TRUE,
               !.reconnecting = FALSE, !.consecutiveErrors = 0]

\* line 77
ReconnectFailure(se) == [se EXCEPT !.reconnecting = FALSE]

\* a failure branch that gives up instead of scheduling a retry
NeverSchedulesRetry(se) == FALSE

\* line 80: a retry is scheduled only for a session still active
SchedulesRetry(se) == se.active

\* window.webContents.send of a connectivity notification
SendConn(cn, kind) ==
    [last |-> kind,
     disc |-> IF kind = "disconnected" THEN Bump(cn.disc)
              ELSE IF kind \in {"connected", "reconnected"} THEN 0
              ELSE cn.disc,
     conn |-> IF kind = "connected" THEN Bump(cn.conn) ELSE cn.conn]

\* a reconnect() that starts its attempt without notifying first
CallReconnectSilently(s, base, op) ==
    IF ReconnectGuard(s, base[s])
    THEN /\ sess' = [base EXCEPT ![s] = EnterReconnect(@)]
         /\ inReconnect' = {s}
         /\ early' = NoEarly
         /\ UNCHANGED connNote
    ELSE /\ sess' = base
         /\ early' = Returned(op, s)
         /\ UNCHANGED <<connNote, inReconnect>>

\* lines 41-49: a call of reconnect(s) on the session state `base`, up to
\* and including the modbus:disconnected notification
CallReconnect(s, base, op) ==
    IF ReconnectGuard(s, base[s])
    THEN /\ sess' = [base EXCEPT ![s] = EnterReconnect(@)]
         /\ connNote' = [connNote EXCEPT ![s] = SendConn(@, "disconnected")]
         /\ inReconnect' = {s}
         /\ early' = NoEarly
    ELSE /\ sess' = base
         /\ early' = Returned(op, s)
         /\ UNCHANGED <<connNote, inReconnect>>

\* ------------------------------------------- StorageService: data model
\* Text is a sequence of one-character strings, so that writing a value to
\* a file and parsing it back are computed character by character.
Digits == <<"0", "1", "2", "3", "4", "5", "6", "7", "8", "9">>

IsDigit(c) == \E d \in 1..10 : Digits[d] = c

DigitOf(c) == (CHOOSE d \in 1..10 : Digits[d] = c) - 1

\* JavaScript values.  A number is held as its count of thousandths, which
\* covers the integers and the decimals of up to three places.
Num(m) == [t |-> "number", n |-> m, s |-> <<>>]

NaN == [t |-> "NaN", n |-> 0, s |-> <<>>]

JsNull == [t |-> "null", n |-> 0, s |-> <<>>]

Undefined == [t |-> "undefined", n |-> 0, s |-> <<>>]

Str(s) == [t |-> "string", n |-> 0, s |-> s]

\* String(n) of a non-negative integer
RECURSIVE IntText(_)
IntText(n) ==
    IF n < 10 THEN <<Digits[n + 1]>>
    ELSE IntText(n \div 10) \o <<Digits[(n % 10) + 1]>>

\* the decimals of String(x) for f thousandths: no trailing zeros
FracText(f) ==
    LET d1 == Digits[(f \div 100) + 1]
        d2 == Digits[((f \div 10) % 10) + 1]
        d3 == Digits[(f % 10) + 1]
    IN  IF f % 10 # 0 THEN <<d1, d2, d3>>
        ELSE IF f % 100 # 0 THEN <<d1, d2>>
        ELSE <<d1>>

\* String(x) of a non-negative number of m thousandths
NumberToString(m) ==
    IF m % 1000 = 0 THEN IntText(m \div 1000)
    ELSE IntText(m \div 1000) \o <<".">> \o FracText(m % 1000)

\* csv-writer's field text before quoting: '' for null and undefined,
\* String(value) otherwise
FieldText(v) ==
    CASE v.t = "string" -> v.s
      [] v.t = "number" -> NumberToString(v.n)
      [] v.t = "NaN" -> <<"N", "a", "N">>
      [] OTHER -> <<>>

RECURSIVE EscapeQuotes(_)
EscapeQuotes(str) ==
    IF str = <<>> THEN <<>>
    ELSE IF Head(str) = "\"" THEN <<"\"", "\"">> \o EscapeQuotes(Tail(str))
    ELSE <<Head(str)>> \o EscapeQuotes(Tail(str))

\* csv-writer: a field is quoted only when it holds the delimiter or a quote
StringifyField(v) ==
    IF \E i \in 1..Len(FieldText(v)) : FieldText(v)[i] \in {",", "\""}
    THEN <<"\"">> \o EscapeQuotes(FieldText(v)) \o <<"\"">>
    ELSE FieldText(v)

RECURSIVE JoinFields(_)
JoinFields(fields) ==
    IF Len(fields) = 0 THEN <<>>
    ELSE IF Len(fields) = 1 THEN fields[1]
    ELSE fields[1] \o <<",">> \o JoinFields(Tail(fields))

\* the column ids given to createObjectCsvWriter
PingHeader ==
    <<<<"t", "i", "m", "e", "s", "t", "a", "m", "p">>,
      <<"i", "p">>,
      <<"r", "e", "s", "p", "o", "n", "s", "e", "_", "t", "i", "m", "e", "_", "m", "s">>,
      <<"s", "t", "a", "t", "u", "s">>>>

ModbusHeader ==
    <<<<"t", "i", "m", "e", "s", "t", "a", "m", "p">>,
      <<"i", "p">>,
      <<"d", "e", "v", "i", "c", "e", "_", "i", "d">>,
      <<"r", "e", "g", "i", "s", "t", "e", "r", "_", "a", "d", "d", "r", "e", "s", "s">>,
      <<"v", "a", "l", "u", "e">>,
      <<"s", "t", "a", "t", "u", "s">>>>

\* the header ids double as the field names of the records
FieldName(id) ==
    CASE id = <<"t", "i", "m", "e", "s", "t", "a", "m", "p">> -> "timestamp"
      [] id = <<"i", "p">> -> "ip"
      [] id = <<"r", "e", "s", "p", "o", "n", "s", "e", "_", "t", "i", "m", "e", "_", "m", "s">> -> "response_time_ms"
      [] id = <<"s", "t", "a", "t", "u", "s">> -> "status"
      [] id = <<"d", "e", "v", "i", "c", "e", "_", "i", "d">> -> "device_id"
      [] id = <<"r", "e", "g", "i", "s", "t", "e", "r", "_", "a", "d", "d", "r", "e", "s", "s">> -> "register_address"
      [] id = <<"v", "a", "l", "u", "e">> -> "value"

\* csv-writer: the line of one record, its fields in the order of the header
RecordLine(header, record) ==
    JoinFields([i \in 1..Len(header) |->
                   StringifyField(record[FieldName(header[i])])])

HeaderLine(header) ==
    JoinFields([i \in 1..Len(header) |-> StringifyField(Str(header[i]))])

\* csv-parser: a cell in quotes loses them and its doubled quotes
RECURSIVE UnescapeQuotes(_)
UnescapeQuotes(str) ==
    IF Len(str) = 0 THEN <<>>
    ELSE IF Len(str) >= 2 /\ str[1] = "\"" /\ str[2] = "\""
         THEN <<"\"">> \o UnescapeQuotes(Tail(Tail(str)))
    ELSE <<Head(str)>> \o UnescapeQuotes(Tail(str))

ParseCell(raw) ==
    IF Len(raw) >= 2 /\ raw[1] = "\"" /\ raw[Len(raw)] = "\""
    THEN UnescapeQuotes(SubSeq(raw, 2, Len(raw) - 1))
    ELSE raw

\* csv-parser: a line is cut at the commas that stand outside quotes
RECURSIVE SplitCells(_, _, _, _)
SplitCells(line, quoted, cur, acc) ==
    IF line = <<>> THEN Append(acc, ParseCell(cur))
    ELSE IF Head(line) = "," /\ ~quoted
         THEN SplitCells(Tail(line), FALSE, <<>>, Append(acc, ParseCell(cur)))
    ELSE SplitCells(Tail(line), IF Head(line) = "\"" THEN ~quoted ELSE quoted,
                    Append(cur, Head(line)), acc)

ParseLine(line) == SplitCells(line, FALSE, <<>>, <<>>)

\* csv-parser: row[name] is the cell under the header of that name, and
\* undefined when the line has no such cell
Cell(headers, cells, name) ==
    LET at == {i \in 1..Len(headers) : headers[i] = name /\ i <= Len(cells)}
    IN  IF at = {} THEN Undefined ELSE Str(cells[CHOOSE i \in at : TRUE])

\* csv-parser: the rows of a file, the first line being the header
Rows(lines) ==
    IF lines = <<>> THEN <<>>
    ELSE [i \in 1..(Len(lines) - 1) |->
             [headers |-> ParseLine(lines[1]),
              cells |-> ParseLine(lines[i + 1])]]

RECURSIVE LeadingDigits(_)
LeadingDigits(str) ==
    IF str # <<>> /\ IsDigit(Head(str)) THEN 1 + LeadingDigits(Tail(str))
    ELSE 0

RECURSIVE DigitsValue(_)
DigitsValue(str) ==
    IF str = <<>> THEN 0
    ELSE 10 * DigitsValue(SubSeq(str, 1, Len(str) - 1))
         + DigitOf(str[Len(str)])

RECURSIVE TrimLeft(_)
TrimLeft(str) ==
    IF str # <<>> /\ Head(str) = " " THEN TrimLeft(Tail(str)) ELSE str

\* the thousandths that the decimals ds stand for
FracValue(ds) ==
    LET at(i) == IF i <= Len(ds) THEN DigitOf(ds[i]) ELSE 0
    IN  100 * at(1) + 10 * at(2) + at(3)

\* String(v) as parseFloat and parseInt apply it to their argument
ArgText(v) ==
    CASE v.t = "string" -> v.s
      [] v.t = "number" -> NumberToString(v.n)
      [] v.t = "NaN" -> <<"N", "a", "N">>
      [] v.t = "null" -> <<"n", "u", "l", "l">>
      [] OTHER -> <<"u", "n", "d", "e", "f", "i", "n", "e", "d">>

\* parseFloat: the longest leading decimal numeral, NaN when there is none
ParseFloat(v) ==
    LET str == TrimLeft(ArgText(v))
        k == LeadingDigits(str)
        rest == SubSeq(str, k + 1, Len(str))
        ds == IF rest # <<>> /\ Head(rest) = "."
              THEN SubSeq(Tail(rest), 1, LeadingDigits(Tail(rest)))
              ELSE <<>>
    IN  IF k = 0 /\ ds = <<>> THEN NaN
        ELSE Num(1000 * DigitsValue(SubSeq(str, 1, k)) + FracValue(ds))

\* parseInt: the longest leading run of digits, NaN when there is none
ParseInt(v) ==
    LET str == TrimLeft(ArgText(v))
        k == LeadingDigits(str)
    IN  IF k = 0 THEN NaN ELSE Num(1000 * DigitsValue(SubSeq(str, 1, k)))

\* the inputs of the storage operations
Timestamps == {<<"1", "T", "2", ":", "3", ".", "4", "Z">>}

Ips == {<<"h", ".", "i">>, <<"a", ",", "\"">>}

\* the records PingService writes: a time with success, null otherwise
PingRecords ==
    {[timestamp |-> Str(ts), ip |-> Str(ip), response_time_ms |-> o[1],
      status |-> Str(o[2])] :
        ts \in Timestamps, ip \in Ips,
        o \in {<<Num(0), <<"s", "u", "c", "c", "e", "s", "s">>>>,
               <<Num(1500), <<"s", "u", "c", "c", "e", "s", "s">>>>,
               <<JsNull, <<"t", "i", "m", "e", "o", "u", "t">>>>,
               <<JsNull, <<"e", "r", "r", "o", "r">>>>}}

\* the records ModbusService writes: a register value with success, null
\* with error
ModbusRecords ==
    {[timestamp |-> Str(ts), ip |-> Str(ip), device_id |-> Num(1000),
      register_address |-> Num(40001000), value |-> o[1],
      status |-> Str(o[2])] :
        ts \in Timestamps, ip \in Ips,
        o \in {<<Num(0), <<"s", "u", "c", "c", "e", "s", "s">>>>,
               <<Num(65535000), <<"s", "u", "c", "c", "e", "s", "s">>>>,
               <<JsNull, <<"e", "r", "r", "o", "r">>>>}}

RECURSIVE ReplaceChars(_, _, _)
ReplaceChars(str, from, to) ==
    IF str = <<>> THEN <<>>
    ELSE <<IF Head(str) \in from THEN to ELSE Head(str)>>
         \o ReplaceChars(Tail(str), from, to)

\* createPingSession, lines 38-39: the file name of a ping log
PingFileName(ip, ts) ==
    <<"p", "i", "n", "g", "_">> \o ReplaceChars(ip, {"."}, "_") \o <<"_">>
    \o ReplaceChars(ts, {":", "."}, "-") \o <<".", "c", "s", "v">>

\* createModbusSession, lines 56-57: the file name of a modbus log
ModbusFileName(ip, deviceId, registerAddress, ts) ==
    <<"m", "o", "d", "b", "u", "s", "_">> \o ReplaceChars(ip, {"."}, "_")
    \o <<"_">> \o NumberToString(deviceId)
    \o <<"_">> \o NumberToString(registerAddress) \o <<"_">>
    \o ReplaceChars(ts, {":", "."}, "-") \o <<".", "c", "s", "v">>

PingLogName == PingFileName(<<"h", ".", "i">>, <<"1", "T", "2", ":", "3", ".", "4", "Z">>)

ModbusLogName == ModbusFileName(<<"h", ".", "i">>, 1000, 40001000, <<"1", "T", "2", ":", "3", ".", "4", "Z">>)

LogNames == {PingLogName, ModbusLogName}

\* the paths a user can pick in the import dialog
Sources ==
    {<<"/", "a", "/", "p", "i", "n", "g", "_", "x", ".", "c", "s", "v">>,
     <<"/", "b", "/", "p", "i", "n", "g", "_", "x", ".", "c", "s", "v">>,
     <<"/", "a", "/", "m", "o", "d", "b", "u", "s", "_", "x", ".", "c", "s", "v">>,
     <<"/", "a", "/", "p", "i", "n", "g", "_", "x", ".", "t", "x", "t">>,
     <<"/", "a", "/", "d", "a", "t", "a", ".", "c", "s", "v">>,
     <<"/", "a", "/", "m", "o", "d", "b", "u", "s", ".", "c", "s", "v", ".", "b", "a", "k">>}

\* path.basename: what follows the last separator
RECURSIVE Basename(_)
Basename(p) ==
    IF \E i \in 1..Len(p) : p[i] = "/" THEN Basename(Tail(p)) ELSE p

StartsWith(str, prefix) ==
    Len(str) >= Len(prefix) /\ SubSeq(str, 1, Len(prefix)) = prefix

EndsWith(str, suffix) ==
    /\ Len(str) >= Len(suffix)
    /\ SubSeq(str, Len(str) - Len(suffix) + 1, Len(str)) = suffix

FileNames == LogNames \cup {Basename(p) : p \in Sources}

NoFile == [exists |-> FALSE, lines |-> <<>>]

\* the file at a source path; the files are told apart by their second line
SourceFile(p) == [exists |-> TRUE, lines |-> <<HeaderLine(PingHeader), p>>]

\* the state after the constructor of StorageService: an empty sessions
\* directory and no csv-writer
StorageInit ==
    /\ dir = [f \in FileNames |-> NoFile]
    /\ writer = [f \in LogNames |-> "none"]
    /\ written = [f \in LogNames |-> <<>>]
    /\ torn = {}
    /\ lastRead = [file |-> <<>>, outcome |-> "none", records |-> <<>>,
                   wrote |-> 0, tornTail |-> FALSE]
    /\ lastImport = [n |-> 0, path |-> <<>>, outcome |-> "none"]
    /\ appends = {}

\* ------------------------------------------------ ModbusService: actions
InitState(rec) ==
    /\ sessions = {}
    /\ created = {}
    /\ startState = [s \in AllMIds |-> "fresh"]
    /\ sess = [s \in AllMIds |-> NoSession]
    /\ timers = {}
    /\ ticks = [s \in AllMIds |-> 0]
    /\ inflight = [s \in AllMIds |-> {}]
    /\ connecting = [s \in AllMIds |-> 0]
    /\ retryTimers = [s \in AllMIds |-> 0]
    /\ inReconnect = {}
    /\ log = [s \in AllMIds |-> <<>>]
    /\ notes = [s \in AllMIds |-> <<>>]
    /\ connNote = [s \in AllMIds |-> NoConnNote]
    /\ psessions = {}
    /\ pstarted = {}
    /\ psess = [s \in AllPIds |-> NoPingSession]
    /\ ptimers = {}
    /\ pticks = [s \in AllPIds |-> 0]
    /\ pinflight = [s \in AllPIds |-> {}]
    /\ plog = [s \in AllPIds |-> <<>>]
    /\ pnotes = [s \in AllPIds |-> <<>>]
    /\ calls = [c \in Calls |-> NoCall]
    /\ objs = [c \in Calls |-> NoObject]
    /\ registry = [s \in MIds |-> 0]
    /\ rticks = [c \in Calls |-> 0]
    /\ stopped = [s \in MIds |-> FALSE]
    /\ wfails = 0
    /\ recording = rec
    /\ early = NoEarly
    /\ StorageInit

\* the state after construction of the services; the log and the data
\* notifications are not kept
Init == InitState(FALSE)

\* the same, with the log and the data notifications kept
HistInit == InitState(TRUE)

\* startModbus, lines 88-102: a new id passes the has() check, the log
\* writer is created and the initial connectTCP is issued
StartModbus(s) ==
    /\ Idle
    /\ startState[s] = "fresh"
    /\ s \notin sessions
    /\ startState' = [startState EXCEPT ![s] = "connecting"]
    /\ UNCHANGED <<sessions, created, sess, timers, ticks, inflight,
                   connecting, retryTimers, inReconnect, log, notes,
                   connNote, wfails,
                   recording, svars, rvars, pvars>>
    /\ early' = NoEarly

\* a startModbus that builds and registers a session although the id exists
StartModbusDuplicateReplaces(s) ==
    /\ Idle
    /\ s \in sessions
    /\ sess' = [sess EXCEPT ![s] = NewSession]
    /\ timers' = timers \cup {s}
    /\ connNote' = [connNote EXCEPT ![s] = SendConn(@, "connected")]
    /\ early' = Returned("StartModbusDuplicate", s)
    /\ UNCHANGED <<sessions, created, startState, ticks, inflight,
                   connecting, retryTimers, inReconnect, log, notes, wfails,
                   recording, svars, rvars, pvars>>

\* startModbus, lines 89-92: the id is already registered
StartModbusDuplicate(s) ==
    /\ Idle
    /\ s \in sessions
    /\ early' = Returned("StartModbusDuplicate", s)
    /\ UNCHANGED <<sessions, created, startState, sess, timers, ticks,
                   inflight, connecting, retryTimers, inReconnect, log,
                   notes, connNote, wfails, recording, svars, rvars, pvars>>

\* startModbus, lines 103-196: the initial connect resolved
StartConnected(s) ==
    /\ Idle
    /\ startState[s] = "connecting"
    /\ startState' = [startState EXCEPT ![s] = "started"]
    /\ created' = created \cup {s}
    /\ sess' = [sess EXCEPT ![s] = NewSession]
    /\ timers' = timers \cup {s}
    /\ sessions' = sessions \cup {s}
    /\ connNote' = [connNote EXCEPT ![s] = SendConn(@, "connected")]
    /\ UNCHANGED <<ticks, inflight, connecting, retryTimers, inReconnect,
                   log, notes, wfails,
                   recording, svars, rvars, pvars>>
    /\ early' = NoEarly

\* a failure branch that schedules a connect retry for the failed start
StartFailedRetries(s) ==
    /\ Idle
    /\ startState[s] = "connecting"
    /\ startState' = [startState EXCEPT ![s] = "failed"]
    /\ connNote' = [connNote EXCEPT ![s] = SendConn(@, "error")]
    /\ retryTimers' = [retryTimers EXCEPT ![s] = @ + 1]
    /\ UNCHANGED <<sessions, created, sess, timers, ticks, inflight,
                   connecting, inReconnect, log, notes, wfails,
                   recording, svars, rvars, pvars>>
    /\ early' = NoEarly

\* startModbus, lines 197-204: the initial connect rejected
StartFailed(s) ==
    /\ Idle
    /\ startState[s] = "connecting"
    /\ startState' = [startState EXCEPT ![s] = "failed"]
    /\ connNote' = [connNote EXCEPT ![s] = SendConn(@, "error")]
    /\ UNCHANGED <<sessions, created, sess, timers, ticks, inflight,
                   connecting, retryTimers, inReconnect, log, notes, wfails,
                   recording, svars, rvars, pvars>>
    /\ early' = NoEarly

\* the interval callback, lines 124-128, skipping
TickSkip(s) ==
    /\ Idle
    /\ s \in timers
    /\ ticks[s] < MaxTicks
    /\ ~TickGuard(sess[s])
    /\ ticks' = [ticks EXCEPT ![s] = @ + 1]
    /\ UNCHANGED <<sessions, created, startState, sess, timers, inflight,
                   connecting, retryTimers, inReconnect, log, notes,
                   connNote, wfails,
                   recording, svars, rvars, pvars>>
    /\ early' = Returned("TickSkip", s)

\* the interval callback, lines 124-139, issuing the register read
TickRead(s) ==
    /\ Idle
    /\ s \in timers
    /\ ticks[s] < MaxTicks
    /\ Cardinality(inflight[s]) < MaxInFlight
    /\ TickGuard(sess[s])
    /\ ticks' = [ticks EXCEPT ![s] = @ + 1]
    /\ inflight' = [inflight EXCEPT ![s] =
           @ \cup {[n |-> ticks[s] + 1, ph |-> "read", rec |-> NoRecord]}]
    /\ UNCHANGED <<sessions, created, startState, sess, timers, connecting,
                   retryTimers, inReconnect, log, notes, connNote, wfails,
                   recording, svars, rvars, pvars>>
    /\ early' = NoEarly

\* lines 134-155: the read resolved with value v; the success record is
\* handed to writeModbusRecord
ReadOk(s, t, v) ==
    /\ Idle
    /\ t \in inflight[s]
    /\ t.ph = "read"
    /\ sess' = [sess EXCEPT ![s] = ReadSuccess(@, v)]
    /\ inflight' = [inflight EXCEPT ![s] = (@ \ {t}) \cup
           {[n |-> t.n, ph |-> "writeOk", rec |-> SuccessRecord(t.n, v)]}]
    /\ UNCHANGED <<sessions, created, startState, timers, ticks, connecting,
                   retryTimers, inReconnect, log, notes, connNote, wfails,
                   recording, svars, rvars, pvars>>
    /\ early' = NoEarly

\* lines 163-177: the read rejected (error or 5 s timeout); the error
\* record is handed to writeModbusRecord
ReadFail(s, t) ==
    /\ Idle
    /\ t \in inflight[s]
    /\ t.ph = "read"
    /\ sess' = [sess EXCEPT ![s] = ReadError(@)]
    /\ inflight' = [inflight EXCEPT ![s] = (@ \ {t}) \cup
           {[n |-> t.n, ph |-> "writeErr", rec |-> ErrorRecord(t.n)]}]
    /\ UNCHANGED <<sessions, created, startState, timers, ticks, connecting,
                   retryTimers, inReconnect, log, notes, connNote, wfails,
                   recording, svars, rvars, pvars>>
    /\ early' = NoEarly

\* lines 155-162: the append of a success record resolved
WriteOkDone(s, t) ==
    /\ Idle
    /\ t \in inflight[s]
    /\ t.ph = "writeOk"
    /\ log' = AppendLog(s, t.rec)
    /\ notes' = SendData(s, t.rec)
    /\ inflight' = [inflight EXCEPT ![s] = @ \ {t}]
    /\ UNCHANGED <<sessions, created, startState, sess, timers, ticks,
                   connecting, retryTimers, inReconnect, connNote, wfails,
                   recording, svars, rvars, pvars>>
    /\ early' = NoEarly

\* lines 155, 163-177: the append of a success record rejected inside the
\* try block, so the catch branch runs
WriteOkFail(s, t) ==
    /\ Idle
    /\ t \in inflight[s]
    /\ t.ph = "writeOk"
    /\ wfails < MaxWriteFails
    /\ wfails' = wfails + 1
    /\ sess' = [sess EXCEPT ![s] = ReadError(@)]
    /\ inflight' = [inflight EXCEPT ![s] = (@ \ {t}) \cup
           {[n |-> t.n, ph |-> "writeErr", rec |-> ErrorRecord(t.n)]}]
    /\ UNCHANGED <<sessions, created, startState, timers, ticks, connecting,
                   retryTimers, inReconnect, log, notes, connNote,
                   recording, svars, rvars, pvars>>
    /\ early' = NoEarly

\* lines 177-190: the append of an error record resolved
WriteErrDone(s, t) ==
    /\ Idle
    /\ t \in inflight[s]
    /\ t.ph = "writeErr"
    /\ log' = AppendLog(s, t.rec)
    /\ notes' = SendData(s, t.rec)
    /\ inflight' = [inflight EXCEPT ![s] = @ \ {t}]
    /\ IF ShouldReconnect(sess[s])
       THEN CallReconnect(s, sess, "WriteErrDone")
       ELSE /\ early' = NoEarly
            /\ UNCHANGED <<sess, connNote, inReconnect>>
    /\ UNCHANGED <<sessions, created, startState, timers, ticks, connecting,
                   retryTimers, wfails,
                   recording, svars, rvars, pvars>>

\* line 177: the append of an error record rejected inside the catch
\* branch; the callback's promise rejects and the tick ends there
WriteErrFail(s, t) ==
    /\ Idle
    /\ t \in inflight[s]
    /\ t.ph = "writeErr"
    /\ wfails < MaxWriteFails
    /\ wfails' = wfails + 1
    /\ inflight' = [inflight EXCEPT ![s] = @ \ {t}]
    /\ UNCHANGED <<sessions, created, startState, sess, timers, ticks,
                   connecting, retryTimers, inReconnect, log, notes, connNote,
                   recording, svars, rvars, pvars>>
    /\ early' = NoEarly

\* reconnect, lines 53-63: close of the old client, connectTCP of a new one
ReconnectAttempt(s) ==
    /\ s \in inReconnect
    /\ inReconnect' = {}
    /\ sess' = [sess EXCEPT ![s] = CloseClient(@)]
    /\ connecting' = [connecting EXCEPT ![s] = @ + 1]
    /\ UNCHANGED <<sessions, created, startState, timers, ticks, inflight,
                   retryTimers, log, notes, connNote, wfails,
                   recording, svars, rvars, pvars>>
    /\ early' = NoEarly

\* a reconnect that announces itself as a first connection
ReconnectOkSendsConnected(s) ==
    /\ Idle
    /\ connecting[s] > 0
    /\ connecting' = [connecting EXCEPT ![s] = @ - 1]
    /\ sess' = [sess EXCEPT ![s] = ReconnectSuccess(@)]
    /\ connNote' = [connNote EXCEPT ![s] = SendConn(@, "connected")]
    /\ UNCHANGED <<sessions, created, startState, timers, ticks, inflight,
                   retryTimers, inReconnect, log, notes, wfails,
                   recording, svars, rvars, pvars>>
    /\ early' = NoEarly

\* reconnect, lines 64-74: connectTCP resolved
ReconnectOk(s) ==
    /\ Idle
    /\ connecting[s] > 0
    /\ connecting' = [connecting EXCEPT ![s] = @ - 1]
    /\ sess' = [sess EXCEPT ![s] = ReconnectSuccess(@)]
    /\ connNote' = [connNote EXCEPT ![s] = SendConn(@, "reconnected")]
    /\ UNCHANGED <<sessions, created, startState, timers, ticks, inflight,
                   retryTimers, inReconnect, log, notes, wfails,
                   recording, svars, rvars, pvars>>
    /\ early' = NoEarly

\* reconnect, lines 75-85: connectTCP rejected
ReconnectFail(s) ==
    /\ Idle
    /\ connecting[s] > 0
    /\ connecting' = [connecting EXCEPT ![s] = @ - 1]
    /\ sess' = [sess EXCEPT ![s] = ReconnectFailure(@)]
    /\ retryTimers' = [retryTimers EXCEPT ![s] =
           IF SchedulesRetry(sess[s]) THEN @ + 1 ELSE @]
    /\ UNCHANGED <<sessions, created, startState, timers, ticks, inflight,
                   inReconnect, log, notes, connNote, wfails,
                   recording, svars, rvars, pvars>>
    /\ early' = NoEarly

\* lines 81-83: the RECONNECT_DELAY timer fires and calls reconnect()
RetryFire(s) ==
    /\ Idle
    /\ retryTimers[s] > 0
    /\ retryTimers' = [retryTimers EXCEPT ![s] = @ - 1]
    /\ CallReconnect(s, sess, "RetryFire")
    /\ UNCHANGED <<sessions, created, startState, timers, ticks, inflight,
                   connecting, log, notes, wfails,
                   recording, svars, rvars, pvars>>

\* lines 210-222 applied to one session object
StopSession(se) ==
    CloseClient([se EXCEPT !.interval = FALSE, !.active = FALSE])

\* a stopModbus that stops every registered session, not only its own
StopModbusStopsOthers(s) ==
    /\ Idle
    /\ IF s \in sessions
       THEN /\ sess' = [o \in AllMIds |->
                   IF o \in sessions THEN StopSession(sess[o]) ELSE sess[o]]
            /\ timers' = timers \ sessions
            /\ early' = NoEarly
       ELSE /\ early' = Returned("StopModbus", s)
            /\ UNCHANGED <<sess, timers>>
    /\ UNCHANGED <<sessions, created, startState, ticks, inflight,
                   connecting, retryTimers, inReconnect, log, notes,
                   connNote, wfails, recording, svars, rvars, pvars>>

\* stopModbus, lines 207-224
StopModbus(s) ==
    /\ Idle
    /\ IF s \in sessions
       THEN /\ sess' = [sess EXCEPT ![s] = StopSession(@)]
            /\ timers' = IF sess[s].interval THEN timers \ {s} ELSE timers
            /\ early' = NoEarly
       ELSE /\ early' = Returned("StopModbus", s)
            /\ UNCHANGED <<sess, timers>>
    /\ UNCHANGED <<sessions, created, startState, ticks, inflight,
                   connecting, retryTimers, inReconnect, log, notes,
                   connNote, wfails,
                   recording, svars, rvars, pvars>>

\* stopAll, lines 230-244: timers cleared, clients closed, registry cleared;
\* neither `active` nor `interval` of the session objects is touched
StopAll ==
    /\ Idle
    /\ timers' = {s \in timers : ~(s \in sessions /\ sess[s].interval)}
    /\ sess' = [s \in AllMIds |->
           IF s \in sessions THEN CloseClient(sess[s]) ELSE sess[s]]
    /\ sessions' = {}
    /\ early' = NoEarly
    /\ UNCHANGED <<created, startState, ticks, inflight, connecting,
                   retryTimers, inReconnect, log, notes, connNote, wfails,
                   recording, svars, rvars, pvars>>

Next ==
    \/ \E s \in MIds : StartModbus(s)
    \/ \E s \in MIds : StartModbusDuplicate(s)
    \/ \E s \in MIds : StartConnected(s)
    \/ \E s \in MIds : StartFailed(s)
    \/ \E s \in MIds : TickSkip(s)
    \/ \E s \in MIds : TickRead(s)
    \/ \E s \in MIds : \E t \in inflight[s] : \E v \in Values : ReadOk(s, t, v)
    \/ \E s \in MIds : \E t \in inflight[s] : ReadFail(s, t)
    \/ \E s \in MIds : \E t \in inflight[s] : WriteOkDone(s, t)
    \/ \E s \in MIds : \E t \in inflight[s] : WriteOkFail(s, t)
    \/ \E s \in MIds : \E t \in inflight[s] : WriteErrDone(s, t)
    \/ \E s \in MIds : \E t \in inflight[s] : WriteErrFail(s, t)
    \/ \E s \in MIds : ReconnectAttempt(s)
    \/ \E s \in MIds : ReconnectOk(s)
    \/ \E s \in MIds : ReconnectFail(s)
    \/ \E s \in MIds : RetryFire(s)
    \/ \E s \in MIds : StopModbus(s)
    \/ StopAll

Spec == Init /\ [][Next]_vars

HistSpec == HistInit /\ [][Next]_vars

\* --------------------------------------------------- PingService: actions
\* lines 66-71: the stats update after a probe that resolved
ProbeResolved(st, alive, tm) ==
    IF alive
    THEN [st EXCEPT !.received = @ + 1, !.totalTime = @ + tm]
    ELSE [st EXCEPT !.lost = @ + 1]

\* line 92: the stats update of the catch branch
ProbeCaught(st) == [st EXCEPT !.lost = @ + 1]

AppendPingLog(s, rec) ==
    IF recording THEN [plog EXCEPT ![s] = Append(@, rec)] ELSE plog

SendPingData(s, rec) ==
    IF recording THEN [pnotes EXCEPT ![s] = Append(@, PingNote(s, rec))]
    ELSE pnotes

\* startPing, lines 28-108, for an id not in the registry
StartPing(s) ==
    /\ s \notin pstarted
    /\ s \notin psessions
    /\ pstarted' = pstarted \cup {s}
    /\ psess' = [psess EXCEPT ![s] = NewPingSession]
    /\ ptimers' = ptimers \cup {s}
    /\ psessions' = psessions \cup {s}
    /\ early' = NoEarly
    /\ UNCHANGED <<pticks, pinflight, plog, pnotes, wfails, recording, svars, rvars, mvars>>

\* startPing, lines 29-32: the id is already registered
StartPingDuplicate(s) ==
    /\ s \in psessions
    /\ early' = Returned("StartPingDuplicate", s)
    /\ UNCHANGED <<pvars, wfails, recording, svars, rvars, mvars>>

\* the interval callback, lines 51-57: sent is counted, the probe is issued
PingTick(s) ==
    /\ s \in ptimers
    /\ pticks[s] < MaxTicks
    /\ Cardinality(pinflight[s]) < MaxInFlight
    /\ pticks' = [pticks EXCEPT ![s] = @ + 1]
    /\ psess' = [psess EXCEPT ![s].stats.sent = @ + 1]
    /\ pinflight' = [pinflight EXCEPT ![s] =
           @ \cup {[n |-> pticks[s] + 1, ph |-> "probe", rec |-> NoPingRecord]}]
    /\ early' = NoEarly
    /\ UNCHANGED <<psessions, pstarted, ptimers, plog, pnotes, wfails,
                   recording, svars, rvars, mvars>>

\* lines 54-73: the probe resolved, alive with time tm or not alive
ProbeDone(s, t, alive, tm) ==
    /\ t \in pinflight[s]
    /\ t.ph = "probe"
    /\ psess' = [psess EXCEPT ![s].stats = ProbeResolved(@, alive, tm)]
    /\ pinflight' = [pinflight EXCEPT ![s] = (@ \ {t}) \cup
           {[n |-> t.n, ph |-> "write",
             rec |-> IF alive THEN PingRecord(t.n, tm, "success")
                     ELSE PingRecord(t.n, Null, "timeout")]}]
    /\ early' = NoEarly
    /\ UNCHANGED <<psessions, pstarted, ptimers, pticks, plog, pnotes, wfails,
                   recording, svars, rvars, mvars>>

\* lines 84-93: the probe rejected
ProbeThrew(s, t) ==
    /\ t \in pinflight[s]
    /\ t.ph = "probe"
    /\ psess' = [psess EXCEPT ![s].stats = ProbeCaught(@)]
    /\ pinflight' = [pinflight EXCEPT ![s] = (@ \ {t}) \cup
           {[n |-> t.n, ph |-> "writeCatch",
             rec |-> PingRecord(t.n, Null, "error")]}]
    /\ early' = NoEarly
    /\ UNCHANGED <<psessions, pstarted, ptimers, pticks, plog, pnotes, wfails,
                   recording, svars, rvars, mvars>>

\* lines 73-83 and 93-103: the append resolved, ping:data is sent
PingWriteDone(s, t) ==
    /\ t \in pinflight[s]
    /\ t.ph \in {"write", "writeCatch"}
    /\ plog' = AppendPingLog(s, t.rec)
    /\ pnotes' = SendPingData(s, t.rec)
    /\ pinflight' = [pinflight EXCEPT ![s] = @ \ {t}]
    /\ early' = NoEarly
    /\ UNCHANGED <<psessions, pstarted, psess, ptimers, pticks, wfails,
                   recording, svars, rvars, mvars>>

\* lines 73, 84-93: the append rejected inside the try block
PingWriteFail(s, t) ==
    /\ t \in pinflight[s]
    /\ t.ph = "write"
    /\ wfails < MaxWriteFails
    /\ wfails' = wfails + 1
    /\ psess' = [psess EXCEPT ![s].stats = ProbeCaught(@)]
    /\ pinflight' = [pinflight EXCEPT ![s] = (@ \ {t}) \cup
           {[n |-> t.n, ph |-> "writeCatch",
             rec |-> PingRecord(t.n, Null, "error")]}]
    /\ early' = NoEarly
    /\ UNCHANGED <<psessions, pstarted, ptimers, pticks, plog, pnotes,
                   recording, svars, rvars, mvars>>

\* line 93: the append rejected inside the catch branch
PingWriteCatchFail(s, t) ==
    /\ t \in pinflight[s]
    /\ t.ph = "writeCatch"
    /\ wfails < MaxWriteFails
    /\ wfails' = wfails + 1
    /\ pinflight' = [pinflight EXCEPT ![s] = @ \ {t}]
    /\ early' = NoEarly
    /\ UNCHANGED <<psessions, pstarted, psess, ptimers, pticks, plog, pnotes,
                   recording, svars, rvars, mvars>>

\* stopPing, lines 110-121
StopPing(s) ==
    /\ IF s \in psessions
       THEN /\ psess' = [psess EXCEPT ![s].interval = FALSE,
                                      ![s].active = FALSE]
            /\ ptimers' = IF psess[s].interval THEN ptimers \ {s} ELSE ptimers
            /\ psessions' = psessions \ {s}
            /\ early' = NoEarly
       ELSE /\ early' = Returned("StopPing", s)
            /\ UNCHANGED <<psess, ptimers, psessions>>
    /\ UNCHANGED <<pstarted, pticks, pinflight, plog, pnotes, wfails,
                   recording, svars, rvars, mvars>>

\* stopAll, lines 127-134
StopAllPing ==
    /\ ptimers' = {s \in ptimers : ~(s \in psessions /\ psess[s].interval)}
    /\ psessions' = {}
    /\ early' = NoEarly
    /\ UNCHANGED <<pstarted, psess, pticks, pinflight, plog, pnotes, wfails,
                   recording, svars, rvars, mvars>>

PingNext ==
    \/ \E s \in PIds : StartPing(s)
    \/ \E s \in PIds : StartPingDuplicate(s)
    \/ \E s \in PIds : PingTick(s)
    \/ \E s \in PIds : \E t \in pinflight[s] : \E tm \in Times :
           ProbeDone(s, t, TRUE, tm)
    \/ \E s \in PIds : \E t \in pinflight[s] : ProbeDone(s, t, FALSE, 0)
    \/ \E s \in PIds : \E t \in pinflight[s] : ProbeThrew(s, t)
    \/ \E s \in PIds : \E t \in pinflight[s] : PingWriteDone(s, t)
    \/ \E s \in PIds : \E t \in pinflight[s] : PingWriteFail(s, t)
    \/ \E s \in PIds : \E t \in pinflight[s] : PingWriteCatchFail(s, t)
    \/ \E s \in PIds : StopPing(s)
    \/ StopAllPing

\* the ping service alone, with the log and the data notifications kept
PingSpec == HistInit /\ [][PingNext]_vars

\* the event loop runs every timer that is due and every connectTCP settles;
\* a connect that is tried again and again eventually succeeds
FairSpec ==
    /\ Spec
    /\ \A s \in MIds : WF_vars(RetryFire(s))
    /\ \A s \in MIds : WF_vars(ReconnectAttempt(s))
    /\ \A s \in MIds : WF_vars(ReconnectOk(s) \/ ReconnectFail(s))
    /\ \A s \in MIds : SF_vars(ReconnectOk(s))

\* ------------------------------- ModbusService: startModbus calls by object
\* The same startModbus, stopModbus and stopAll, with the session objects
\* told apart by the call that constructed them, so that several calls for
\* one id can be between the has() check and the sessions.set().

\* startModbus, lines 88-102: call c for id s passes the has() check and
\* issues its connectTCP
StartCall(c, s) ==
    /\ calls[c].pc = "idle"
    /\ registry[s] = 0
    /\ calls' = [calls EXCEPT ![c] = [pc |-> "connecting", id |-> s]]
    /\ stopped' = [stopped EXCEPT ![s] = FALSE]
    /\ early' = NoEarly
    /\ UNCHANGED <<objs, registry, rticks, mvars, pvars, wfails, recording, svars>>

\* startModbus, lines 89-92: call c finds the id in the registry
StartCallDuplicate(c, s) ==
    /\ calls[c].pc = "idle"
    /\ registry[s] # 0
    /\ calls' = [calls EXCEPT ![c] = [pc |-> "duplicate", id |-> s]]
    /\ early' = Returned("StartCallDuplicate", s)
    /\ UNCHANGED <<objs, registry, rticks, stopped, mvars, pvars, wfails,
                   recording, svars>>

\* startModbus, lines 102-196: the connect of call c resolved; the session
\* object is built, its timer armed, and sessions.set stores it under the id
CallConnected(c) ==
    /\ calls[c].pc = "connecting"
    /\ calls' = [calls EXCEPT ![c].pc = "started"]
    /\ objs' = [objs EXCEPT ![c] = NewObject]
    /\ registry' = [registry EXCEPT ![calls[c].id] = c]
    /\ early' = NoEarly
    /\ UNCHANGED <<rticks, stopped, mvars, pvars, wfails, recording, svars>>

\* startModbus, lines 197-204: the connect of call c rejected
CallFailed(c) ==
    /\ calls[c].pc = "connecting"
    /\ calls' = [calls EXCEPT ![c].pc = "failed"]
    /\ early' = NoEarly
    /\ UNCHANGED <<objs, registry, rticks, stopped, mvars, pvars, wfails,
                   recording, svars>>

\* lines 124-125: the interval timer of the object of call c fires
ObjectTick(c) ==
    /\ objs[c].timer
    /\ rticks[c] < MaxTicks
    /\ rticks' = [rticks EXCEPT ![c] = @ + 1]
    /\ early' = NoEarly
    /\ UNCHANGED <<calls, objs, registry, stopped, mvars, pvars, wfails,
                   recording, svars>>

\* lines 210-222 applied to the object the registry holds
StopObject(o) ==
    [o EXCEPT !.timer = IF o.interval THEN FALSE ELSE @,
              !.interval = FALSE, !.active = FALSE, !.clientOpen = FALSE]

\* stopModbus, lines 207-224
StopRegistered(s) ==
    /\ IF registry[s] # 0
       THEN /\ objs' = [objs EXCEPT ![registry[s]] = StopObject(@)]
            /\ stopped' = [stopped EXCEPT ![s] = TRUE]
            /\ early' = NoEarly
       ELSE /\ early' = Returned("StopRegistered", s)
            /\ UNCHANGED <<objs, stopped>>
    /\ UNCHANGED <<calls, registry, rticks, mvars, pvars, wfails, recording, svars>>

\* lines 231-241 applied to one object of the registry
StopAllObject(o) ==
    [o EXCEPT !.timer = IF o.interval THEN FALSE ELSE @,
              !.clientOpen = FALSE]

\* stopAll, lines 230-244
StopAllRegistered ==
    /\ objs' = [c \in Calls |->
           IF \E s \in MIds : registry[s] = c
           THEN StopAllObject(objs[c]) ELSE objs[c]]
    /\ registry' = [s \in MIds |-> 0]
    /\ early' = NoEarly
    /\ UNCHANGED <<calls, rticks, stopped, mvars, pvars, wfails, recording, svars>>

StartNext ==
    \/ \E c \in Calls : \E s \in MIds : StartCall(c, s)
    \/ \E c \in Calls : \E s \in MIds : StartCallDuplicate(c, s)
    \/ \E c \in Calls : CallConnected(c)
    \/ \E c \in Calls : CallFailed(c)
    \/ \E c \in Calls : ObjectTick(c)
    \/ \E s \in MIds : StopRegistered(s)
    \/ StopAllRegistered

\* the start and stop requests of ModbusService in every interleaving
StartSpec == Init /\ [][StartNext]_vars

\* ------------------------------------------------------ the two services
\* ModbusService and PingService share no state (each has its own Map, its
\* own session objects and timers), so a run exercises one of them: the
\* modbus handlers run while no ping session was ever started, the ping
\* handlers while no startModbus was ever called.
EitherNext ==
    \/ pstarted = {} /\ Next
    \/ (\A s \in MIds : startState[s] = "fresh") /\ PingNext

EitherSpec == Init /\ [][EitherNext]_vars

\* the same, with the log and the data notifications kept
EitherHistSpec == HistInit /\ [][EitherNext]_vars

\* --------------------------------------------- two sessions side by side
\* The handlers of one service with two session ids; the interval timers of
\* the two sessions fire MaxPairTicks times between them.
OnlyModbus == pstarted = {}

OnlyPing == \A s \in AllMIds : startState[s] = "fresh"

TicksLeft == ticks["m1"] + ticks["m2"] < MaxPairTicks

PingTicksLeft == pticks["p1"] + pticks["p2"] < MaxPairTicks

\* lines 124-139: the interval callback, skipping or issuing the read
Tick(s) == TickSkip(s) \/ TickRead(s)

PairNext ==
    \/ \E s \in AllMIds : OnlyModbus /\ StartModbus(s)
    \/ \E s \in AllMIds : OnlyModbus /\ StartModbusDuplicate(s)
    \/ \E s \in AllMIds : OnlyModbus /\ StartConnected(s)
    \/ \E s \in AllMIds : OnlyModbus /\ StartFailed(s)
    \/ \E s \in AllMIds : OnlyModbus /\ TicksLeft /\ Tick(s)
    \/ \E s \in AllMIds : \E t \in inflight[s] : \E v \in Values :
           OnlyModbus /\ ReadOk(s, t, v)
    \/ \E s \in AllMIds : \E t \in inflight[s] : OnlyModbus /\ ReadFail(s, t)
    \/ \E s \in AllMIds : \E t \in inflight[s] : OnlyModbus /\ WriteOkDone(s, t)
    \/ \E s \in AllMIds : \E t \in inflight[s] : OnlyModbus /\ WriteOkFail(s, t)
    \/ \E s \in AllMIds : \E t \in inflight[s] : OnlyModbus /\ WriteErrDone(s, t)
    \/ \E s \in AllMIds : \E t \in inflight[s] : OnlyModbus /\ WriteErrFail(s, t)
    \/ \E s \in AllMIds : OnlyModbus /\ ReconnectAttempt(s)
    \/ \E s \in AllMIds : OnlyModbus /\ ReconnectOk(s)
    \/ \E s \in AllMIds : OnlyModbus /\ ReconnectFail(s)
    \/ \E s \in AllMIds : OnlyModbus /\ RetryFire(s)
    \/ \E s \in AllMIds : OnlyModbus /\ StopModbus(s)
    \/ OnlyModbus /\ StopAll
    \/ \E s \in AllPIds : OnlyPing /\ StartPing(s)
    \/ \E s \in AllPIds : OnlyPing /\ StartPingDuplicate(s)
    \/ \E s \in AllPIds : OnlyPing /\ PingTicksLeft /\ PingTick(s)
    \/ \E s \in AllPIds : \E t \in pinflight[s] : \E tm \in Times :
           OnlyPing /\ ProbeDone(s, t, TRUE, tm)
    \/ \E s \in AllPIds : \E t \in pinflight[s] :
           OnlyPing /\ ProbeDone(s, t, FALSE, 0)
    \/ \E s \in AllPIds : \E t \in pinflight[s] : OnlyPing /\ ProbeThrew(s, t)
    \/ \E s \in AllPIds : \E t \in pinflight[s] : OnlyPing /\ PingWriteDone(s, t)
    \/ \E s \in AllPIds : \E t \in pinflight[s] : OnlyPing /\ PingWriteFail(s, t)
    \/ \E s \in AllPIds : \E t \in pinflight[s] :
           OnlyPing /\ PingWriteCatchFail(s, t)
    \/ \E s \in AllPIds : OnlyPing /\ StopPing(s)
    \/ OnlyPing /\ StopAllPing

PairSpec == Init /\ [][PairNext]_vars

\* ------------------------------------------------------------ properties
\* what a step did, read off the state change
ReadIssued(s) == \E t \in inflight'[s] \ inflight[s] : t.ph = "read"

ReadResolved(s) ==
    \E t \in inflight[s] \ inflight'[s] : \E u \in inflight'[s] \ inflight[s] :
        t.ph = "read" /\ u.ph = "writeOk" /\ u.n = t.n

ErrorTickCompleted(s) ==
    /\ \E t \in inflight[s] \ inflight'[s] : t.ph = "writeErr"
    /\ wfails' = wfails

AttemptStarted(s) == connecting'[s] > connecting[s]

RetryFired(s) == retryTimers'[s] < retryTimers[s]

Live(s) == s \in sessions /\ sess[s].active

Stopped(s) == s \in created /\ ~Live(s)

AttemptPending(s) == s \in inReconnect \/ connecting[s] > 0

Logged(s, n) == \E i \in 1..Len(log[s]) : log[s][i].tick = n

Notified(s, n) == \E i \in 1..Len(notes[s]) : notes[s][i].record.tick = n

PingLogged(s, n) == \E i \in 1..Len(plog[s]) : plog[s][i].tick = n

PingNotified(s, n) == \E i \in 1..Len(pnotes[s]) : pnotes[s][i].record.tick = n

\* C1: at most one tick of a session is between its transport call and its
\* notification at any time, so at most one transport call of the session
\* (register read or ping probe) is in flight.
C1_TicksSerialized ==
    /\ \A s \in MIds : Cardinality(inflight[s]) <= 1
    /\ \A s \in PIds : Cardinality(pinflight[s]) <= 1

\* C2: when the transport call of a tick is in flight, the record of every
\* earlier tick of the session is already in the log and already notified
\* (stated for the runs in which no append fails).
C2_RecordBeforeNextCall ==
    \A s \in PIds : \A t \in pinflight[s] :
        (wfails = 0 /\ t.ph = "probe") =>
            \A n \in 1..(t.n - 1) : PingLogged(s, n) /\ PingNotified(s, n)

\* C3: once three consecutive reads have failed no register read is issued
\* before a reconnect attempt has been made, the handling of the third
\* failure leaves a live session Reconnecting, and a tick that fires while
\* the session is Reconnecting appends and notifies nothing (stated for the
\* runs in which no append fails).
C3_NoReadAfterThreeFailures ==
    [][\A s \in MIds :
        /\ (wfails = 0 /\ sess[s].consecutiveErrors >= MAX_CONSECUTIVE_ERRORS)
               => ~ReadIssued(s)
        /\ (ErrorTickCompleted(s) /\ Live(s)
                /\ sess[s].consecutiveErrors >= MAX_CONSECUTIVE_ERRORS)
               => sess'[s].reconnecting
        /\ (ticks'[s] # ticks[s] /\ ~TickGuard(sess[s]))
               => (log' = log /\ notes' = notes /\ inflight' = inflight)
      ]_vars

\* C4: a successful register read sets consecutiveErrors to 0 whatever it
\* was, without touching the connectivity flags, starting a reconnect or
\* notifying; and the handling of a failed read enters Reconnecting only
\* when consecutiveErrors has reached 3, so the failures before a
\* successful read never lead to Reconnecting.
C4_SuccessfulReadHeals ==
    [][\A s \in MIds :
        /\ ReadResolved(s) =>
               /\ sess'[s].consecutiveErrors = 0
               /\ sess'[s].connected = sess[s].connected
               /\ sess'[s].reconnecting = sess[s].reconnecting
               /\ connNote' = connNote
               /\ connecting' = connecting
               /\ inReconnect' = inReconnect
        /\ (ErrorTickCompleted(s)
                /\ sess[s].consecutiveErrors < MAX_CONSECUTIVE_ERRORS) =>
               /\ sess'[s] = sess[s]
               /\ connNote' = connNote
               /\ inReconnect' = inReconnect
      ]_vars

\* C4 witness: a read has just succeeded after two failed reads and nothing
\* else: the count is back to 0 and the session is still Connected.
C4_Witness ==
    \E s \in MIds : \E t \in inflight[s] :
        /\ t.ph = "writeOk"
        /\ sess[s].stats.errors = 2
        /\ sess[s].stats.reads = 1
        /\ sess[s].consecutiveErrors = 0
        /\ sess[s].connected /\ ~sess[s].reconnecting
        /\ connNote[s].last = "connected"
        /\ wfails = 0

\* C5: the step that enters Reconnecting sets connected to false and sends
\* `disconnected` while the old transport is still untouched and no connect
\* has been issued; the attempt (close of the old client, connect of a new
\* one) starts only after that.
C5_DisconnectedBeforeAttempt ==
    [][\A s \in MIds :
        /\ (~sess[s].reconnecting /\ sess'[s].reconnecting) =>
               /\ ~sess'[s].connected
               /\ connNote'[s].last = "disconnected"
               /\ connecting' = connecting
               /\ sess'[s].clientOpen = sess[s].clientOpen
               /\ sess'[s].closes = sess[s].closes
        /\ AttemptStarted(s) =>
               /\ sess[s].reconnecting /\ ~sess[s].connected
               /\ connNote[s].last = "disconnected"
      ]_vars

\* C5 witness: a reconnect attempt is in progress.
C5_Witness ==
    \E s \in MIds :
        /\ connecting[s] > 0
        /\ sess[s].reconnecting
        /\ connNote[s].last = "disconnected"

\* C6: a retry sends no connectivity notification: once `disconnected` has
\* been sent on entering Reconnecting, the firing of a retry timer sends no
\* further `disconnected` (nor anything else) before the next `reconnected`.
C6_RetryNotifiesNothing ==
    [][\A s \in MIds :
        (RetryFired(s) /\ connNote[s].disc >= 1) => connNote'[s] = connNote[s]
      ]_vars

\* C7: a session has at most one reconnect retry timer pending and at most
\* one reconnect attempt in progress.
C7_SingleRetryChain ==
    \A s \in MIds :
        /\ retryTimers[s] <= 1
        /\ connecting[s] + Cardinality(inReconnect \cap {s}) <= 1

\* C8: Scenario B: once the reads of ticks 1 to 3 have failed and been
\* recorded, a live session is disconnected and `disconnected` was sent, and
\* until the reconnect succeeds tick 4 has no record, neither logged nor
\* notified (stated for the runs in which no append fails).
C8_ScenarioB ==
    \A s \in MIds :
        (/\ wfails = 0
         /\ Live(s)
         /\ \A n \in 1..3 : \E i \in 1..Len(log[s]) : log[s][i] = ErrorRecord(n)
         /\ sess[s].gen = 0)
        => /\ ~sess[s].connected
           /\ connNote[s].last = "disconnected"
           /\ ~Logged(s, 4) /\ ~Notified(s, 4)

\* C9: for a live session, a failed reconnect attempt is always followed by
\* another attempt, a disconnected session eventually is Connected again
\* with `reconnected` sent, and no `error` notification is ever sent for a
\* session that was started.
C9_RetriesUntilReconnected ==
    /\ \A s \in MIds :
           (Live(s) /\ ~sess[s].connected /\ ~AttemptPending(s))
               ~> (AttemptPending(s) \/ ~Live(s))
    /\ \A s \in MIds :
           (Live(s) /\ ~sess[s].connected)
               ~> ((sess[s].connected /\ connNote[s].last = "reconnected")
                   \/ ~Live(s))
    /\ [](\A s \in MIds : s \in created => connNote[s].last # "error")

\* C9 witness: a second attempt is in progress after a failed first one.
C9_Witness ==
    \E s \in MIds :
        /\ Live(s)
        /\ connecting[s] > 0
        /\ connNote[s].disc >= 2
        /\ retryTimers[s] = 0

\* C10: a reconnect retry whose timer fires after its session was stopped
\* (stopModbus or stopAll) does nothing: the session's fields, the
\* transport, the notifications and the log are unchanged, no connect is
\* issued and no further retry is scheduled.
C10_RetryAfterStopIsInert ==
    [][\A s \in MIds :
        (RetryFired(s) /\ Stopped(s)) =>
            /\ sess' = sess
            /\ connNote' = connNote
            /\ notes' = notes
            /\ log' = log
            /\ connecting' = connecting
            /\ inReconnect' = inReconnect
            /\ retryTimers'[s] = retryTimers[s] - 1
      ]_vars

\* C10 witness: the retry timer of a stopped session has fired and
\* reconnect() returned at its guard.
C10_Witness ==
    \E s \in MIds :
        /\ early = Returned("RetryFire", s)
        /\ ~sess[s].active
        /\ ~sess[s].reconnecting
        /\ retryTimers[s] = 0

\* C11: once stopModbus(id) has returned for a registered session, no
\* interval timer of a session object created under that id fires again.
C11_NoTickAfterStop ==
    [][\A s \in MIds : \A c \in Calls :
        (stopped[s] /\ calls[c].id = s) => rticks'[c] = rticks[c]
      ]_vars

\* a step in which a tick's record was appended and notified
RecordWritten(s) ==
    \E t \in inflight[s] :
        /\ t.ph \in {"writeOk", "writeErr"}
        /\ inflight'[s] = inflight[s] \ {t}
        /\ wfails' = wfails

\* C12: after a session was stopped no register read is issued for it, and
\* a tick that was in flight at the stop and still writes its record writes
\* the last record of the session: no other tick is left to write after it.
C12_StopMidTick ==
    [][\A s \in MIds :
        /\ Stopped(s) => ~ReadIssued(s)
        /\ (Stopped(s) /\ RecordWritten(s)) => inflight'[s] = {}
      ]_vars

\* C13: a session that was stopped is not in the registry any more:
\* getSession finds only sessions that have not been stopped.
C13_StoppedNotRegistered ==
    \A s \in MIds : s \in sessions => sess[s].active

\* C14: a stopModbus call for a session that was already stopped makes no
\* further close() call on the session's transport handle.
C14_SecondStopClosesNothing ==
    [][\A s \in MIds :
        (s \in sessions /\ s \in sessions' /\ ~sess[s].active)
            => sess'[s].closes <= sess[s].closes
      ]_vars

\* C15: a start request for an id that is in the registry returns without
\* any effect: sessions, stats, transports, timers, logs and notifications
\* of the service are what they were, no connect is issued, and a session
\* that was running keeps its one timer.
C15_DuplicateStartIsNoOp ==
    [][/\ \A s \in MIds :
            (early' = Returned("StartModbusDuplicate", s) /\ early' # early)
                => /\ mvars' = mvars
                   /\ wfails' = wfails
                   /\ Live(s) => s \in timers'
       /\ \A s \in PIds :
            (early' = Returned("StartPingDuplicate", s) /\ early' # early)
                => /\ pvars' = pvars
                   /\ wfails' = wfails
                   /\ s \in ptimers'
      ]_vars

\* C15 witness: startPing has just returned at its has() check for a
\* session that has sent probes and has one of them in flight.
C15_Witness ==
    \E s \in PIds :
        /\ early = Returned("StartPingDuplicate", s)
        /\ s \in psessions /\ s \in ptimers
        /\ psess[s].stats.sent >= 2
        /\ pinflight[s] # {}

\* C16: at most one interval timer is armed for a session id, and it is the
\* timer of the session object the registry holds under that id: no start
\* leaves a second session object with a running timer behind.
C16_OneTimelinePerId ==
    \A s \in MIds :
        /\ Cardinality({c \in Calls : calls[c].id = s /\ objs[c].timer}) <= 1
        /\ \A c \in Calls :
               (calls[c].id = s /\ objs[c].timer) => registry[s] = c

\* C17: once the initial connect of startModbus has failed, `error` is the
\* only notification sent for the id, no `connected` was sent, the id is
\* not in the registry, no session object and no timer exist for it, no
\* tick has run, and no connect or retry is pending.
C17_FailedStartLeavesNothing ==
    \A s \in MIds :
        startState[s] = "failed" =>
            /\ connNote[s] = SendConn(NoConnNote, "error")
            /\ s \notin sessions /\ s \notin created /\ s \notin timers
            /\ sess[s] = NoSession
            /\ ticks[s] = 0 /\ inflight[s] = {}
            /\ connecting[s] = 0 /\ retryTimers[s] = 0
            /\ s \notin inReconnect

\* C17 witness: the initial connect has failed and the service has gone on
\* handling requests for the id.
C17_Witness ==
    \E s \in MIds :
        /\ startState[s] = "failed"
        /\ connNote[s].last = "error"
        /\ early = Returned("StopModbus", s)

\* the data notifications of a session that carry a record of status st
NotesOf(s, st) == {i \in 1..Len(notes[s]) : notes[s][i].record.status = st}

\* the ticks of a session that are waiting for the append of their record
Appending(s, ph) == {t \in inflight[s] : t.ph = ph}

\* C18: every record a tick has produced is carried by a data notification
\* once its append has settled, whether the append succeeded or failed:
\* the success records notified or still being appended are as many as the
\* reads counted, the error records as many as the errors counted.
C18_RecordNotifiedDespiteAppendFailure ==
    \A s \in MIds :
        /\ Cardinality(NotesOf(s, "success"))
               + Cardinality(Appending(s, "writeOk")) = sess[s].stats.reads
        /\ Cardinality(NotesOf(s, "error"))
               + Cardinality(Appending(s, "writeErr")) = sess[s].stats.errors

\* C19: a step in which an append to the log fails leaves the counters of
\* the session alone (reads, errors, lastValue, consecutiveErrors), builds
\* no further record, and starts no reconnect.
C19_AppendFailureIsolated ==
    [][\A s \in MIds :
        wfails' > wfails =>
            /\ sess'[s].stats = sess[s].stats
            /\ sess'[s].consecutiveErrors = sess[s].consecutiveErrors
            /\ inflight'[s] \subseteq inflight[s]
            /\ inReconnect' = inReconnect
      ]_vars

\* sent = received + lost in a Probe stats record
Balanced(st) == st.sent = st.received + st.lost

\* C20: the stats carried by every ping:data notification satisfy
\* sent = received + lost, and so do the stats of the session whenever none
\* of its probes is in flight.
C20_SentIsReceivedPlusLost ==
    \A s \in PIds :
        /\ \A i \in 1..Len(pnotes[s]) : Balanced(pnotes[s][i].stats)
        /\ (\A t \in pinflight[s] : t.ph # "probe") => Balanced(psess[s].stats)

\* C21: Scenario A: when the first data notification of a Probe session
\* reports a probe that timed out, its record has status `timeout` and no
\* response time, and the stats sent with it are sent = 1, received = 0,
\* lost = 1 (stated for the runs in which no append fails).
C21_ScenarioA ==
    \A s \in PIds :
        (/\ wfails = 0
         /\ Len(pnotes[s]) >= 1
         /\ pnotes[s][1].record.status = "timeout")
        => /\ pnotes[s][1].record.time = Null
           /\ pnotes[s][1].stats.sent = 1
           /\ pnotes[s][1].stats.received = 0
           /\ pnotes[s][1].stats.lost = 1

\* C22: the stats carried by the k-th data notification of a session are
\* the stats after exactly k records: reads + errors = k (stated for the
\* runs in which no append fails).
C22_StatsMatchRecord ==
    \A s \in MIds :
        wfails = 0 =>
            \A k \in 1..Len(notes[s]) :
                notes[s][k].stats.reads + notes[s][k].stats.errors = k

\* what a step changed of one RegisterPoll session, of one Probe session
Touched(s) ==
    \/ sess'[s] # sess[s]
    \/ (s \in timers') # (s \in timers)
    \/ (s \in sessions') # (s \in sessions)
    \/ startState'[s] # startState[s]
    \/ ticks'[s] # ticks[s]
    \/ inflight'[s] # inflight[s]
    \/ connecting'[s] # connecting[s]
    \/ retryTimers'[s] # retryTimers[s]
    \/ connNote'[s] # connNote[s]
    \/ log'[s] # log[s]
    \/ notes'[s] # notes[s]

PingTouched(s) ==
    \/ psess'[s] # psess[s]
    \/ (s \in ptimers') # (s \in ptimers)
    \/ (s \in psessions') # (s \in psessions)
    \/ pticks'[s] # pticks[s]
    \/ pinflight'[s] # pinflight[s]
    \/ plog'[s] # plog[s]
    \/ pnotes'[s] # pnotes[s]

C24_StopAllCancelsEveryTimer ==
    [][((\E s \in MIds : registry[s] # 0) /\ (\A s \in MIds : registry'[s] = 0))
        => \A c \in Calls : ~objs'[c].timer
      ]_vars

\* C25: a session that was stopped (stopModbus) or dropped from the
\* registry (stopAll) holds no open transport handle, at any later time.
C25_StoppedHoldsNoOpenHandle ==
    \A s \in MIds : Stopped(s) => ~sess[s].clientOpen

\* C26: a tick that fires while the session is reconnecting or not
\* connected does nothing: no read is issued, no record is built, appended
\* or notified, and the session's stats, consecutiveErrors, flags and
\* connectivity notifications are what they were.
C26_SkippedTickDoesNothing ==
    [][\A s \in MIds :
        (ticks'[s] # ticks[s] /\ (sess[s].reconnecting \/ ~sess[s].connected))
            => /\ inflight' = inflight
               /\ sess' = sess
               /\ log' = log /\ notes' = notes
               /\ connNote' = connNote
               /\ connecting' = connecting /\ retryTimers' = retryTimers
      ]_vars

\* C26 witness: a tick has just been skipped on a live session whose
\* reconnect attempt failed, with reads and errors counted before.
C26_Witness ==
    \E s \in MIds :
        /\ early = Returned("TickSkip", s)
        /\ Live(s)
        /\ ~sess[s].connected /\ ~sess[s].reconnecting
        /\ sess[s].stats.errors >= 3
        /\ retryTimers[s] > 0

\* a step of reconnect(): entering, starting the attempt, or its outcome
ReconnectStep(s) ==
    \/ connecting'[s] # connecting[s]
    \/ (s \in inReconnect') # (s \in inReconnect)
    \/ sess'[s].gen # sess[s].gen

\* C27: no step lowers reads or errors of a RegisterPoll session or sent,
\* received, lost or totalTime of a Probe session, and a step of reconnect()
\* leaves reads, errors and lastValue as they are.
C27_StatsMonotonic ==
    [][/\ \A s \in MIds :
            /\ sess'[s].stats.reads >= sess[s].stats.reads
            /\ sess'[s].stats.errors >= sess[s].stats.errors
            /\ ReconnectStep(s) => sess'[s].stats = sess[s].stats
       /\ \A s \in PIds :
            /\ psess'[s].stats.sent >= psess[s].stats.sent
            /\ psess'[s].stats.received >= psess[s].stats.received
            /\ psess'[s].stats.lost >= psess[s].stats.lost
            /\ psess'[s].stats.totalTime >= psess[s].stats.totalTime
      ]_vars

\* C27 witness: a session has reconnected after one successful and three
\* failed reads, and its stats still show them.
C27_Witness ==
    \E s \in MIds :
        /\ sess[s].gen >= 1
        /\ sess[s].connected
        /\ sess[s].stats.reads = 1
        /\ sess[s].stats.errors = 3
        /\ sess[s].stats.lastValue \in Values


\* ---------------------------------------------- StorageService: actions
\* the runs of the storage layer either write and read one session log or
\* import files
\* createPingSession / createModbusSession, lines 37-73: the csv-writer
\* object of a new log; the file itself appears with the first write
CreateSession(f) ==
    /\ \A g \in LogNames : writer[g] = "none"
    /\ lastImport.n = 0
    /\ writer' = [writer EXCEPT ![f] = "new"]
    /\ UNCHANGED <<dir, written, torn, lastRead, lastImport, appends>>
    /\ UNCHANGED <<mvars, pvars, rvars, wfails, recording, early>>

\* csv-writer: the first write of a writer replaces the file by the header
\* and the text, the later ones append the text
FileAfterWrite(f, header, text) ==
    [exists |-> TRUE,
     lines |-> IF writer[f] = "new" THEN <<HeaderLine(header), text>>
               ELSE Append(dir[f].lines, text)]

\* writePingRecord / writeModbusRecord, lines 75-81:
\* writer.writeRecords([record]), when it completes
WriteRecords(f, header, record) ==
    /\ writer[f] \in {"new", "appending"}
    /\ Len(written[f]) < MaxRecords
    /\ dir' = [dir EXCEPT ![f] = FileAfterWrite(f, header,
                                               RecordLine(header, record))]
    /\ writer' = [writer EXCEPT ![f] = "appending"]
    /\ written' = [written EXCEPT ![f] = Append(@, record)]
    /\ UNCHANGED <<torn, lastRead, lastImport, appends>>
    /\ UNCHANGED <<mvars, pvars, rvars, wfails, recording, early>>

\* writer.writeRecords([record]) cut short by a crash of the process: the
\* first k characters of the row reach the file and the writer is gone
TornWrite(f, header, record, k) ==
    /\ writer[f] \in {"new", "appending"}
    /\ Len(written[f]) < MaxRecords
    /\ k \in 1..(Len(RecordLine(header, record)) - 1)
    /\ dir' = [dir EXCEPT ![f] =
                  FileAfterWrite(f, header,
                                 SubSeq(RecordLine(header, record), 1, k))]
    /\ writer' = [writer EXCEPT ![f] = "closed"]
    /\ torn' = torn \cup {f}
    /\ UNCHANGED <<written, lastRead, lastImport, appends>>
    /\ UNCHANGED <<mvars, pvars, rvars, wfails, recording, early>>

\* readPingSession, lines 91-96: the record pushed for a row
PingRecordOfRowKeepsEmpty(row) ==
    [timestamp |-> Cell(row.headers, row.cells, PingHeader[1]),
     ip |-> Cell(row.headers, row.cells, PingHeader[2]),
     response_time_ms |->
         ParseFloat(Cell(row.headers, row.cells, PingHeader[3])),
     status |-> Cell(row.headers, row.cells, PingHeader[4])]

PingRecordOfRow(row) ==
    [timestamp |-> Cell(row.headers, row.cells, PingHeader[1]),
     ip |-> Cell(row.headers, row.cells, PingHeader[2]),
     response_time_ms |->
         IF Cell(row.headers, row.cells, PingHeader[3]) = Str(<<>>)
         THEN JsNull
         ELSE ParseFloat(Cell(row.headers, row.cells, PingHeader[3])),
     status |-> Cell(row.headers, row.cells, PingHeader[4])]

\* readModbusSession, lines 111-118: the record pushed for a row
ModbusRecordOfRow(row) ==
    [timestamp |-> Cell(row.headers, row.cells, ModbusHeader[1]),
     ip |-> Cell(row.headers, row.cells, ModbusHeader[2]),
     device_id |-> ParseInt(Cell(row.headers, row.cells, ModbusHeader[3])),
     register_address |->
         ParseInt(Cell(row.headers, row.cells, ModbusHeader[4])),
     value |->
         IF Cell(row.headers, row.cells, ModbusHeader[5]) = Str(<<>>)
         THEN JsNull
         ELSE ParseFloat(Cell(row.headers, row.cells, ModbusHeader[5])),
     status |-> Cell(row.headers, row.cells, ModbusHeader[6])]

\* the promise of a read resolves at 'end' with one record per row; the
\* log is one that listSessions shows, so the file exists
ReadResult(f, records) ==
    [file |-> f, outcome |-> "resolved", records |-> records,
     wrote |-> Len(written[f]), tornTail |-> f \in torn]

ReadPingSession ==
    /\ dir[PingLogName].exists
    /\ lastRead' =
           ReadResult(PingLogName,
                      [i \in 1..Len(Rows(dir[PingLogName].lines)) |->
                          PingRecordOfRow(Rows(dir[PingLogName].lines)[i])])
    /\ UNCHANGED <<dir, writer, written, torn, lastImport, appends>>
    /\ UNCHANGED <<mvars, pvars, rvars, wfails, recording, early>>

ReadModbusSession ==
    /\ dir[ModbusLogName].exists
    /\ lastRead' =
           ReadResult(ModbusLogName,
                      [i \in 1..Len(Rows(dir[ModbusLogName].lines)) |->
                          ModbusRecordOfRow(
                              Rows(dir[ModbusLogName].lines)[i])])
    /\ UNCHANGED <<dir, writer, written, torn, lastImport, appends>>
    /\ UNCHANGED <<mvars, pvars, rvars, wfails, recording, early>>

\* importSession, lines 153-156: the check of the file name
ValidSessionNameAnyPrefix(filename) ==
    EndsWith(filename, <<".", "c", "s", "v">>)

ValidSessionName(filename) ==
    ~(\/ ~EndsWith(filename, <<".", "c", "s", "v">>)
      \/ (/\ ~StartsWith(filename, <<"p", "i", "n", "g", "_">>)
          /\ ~StartsWith(filename, <<"m", "o", "d", "b", "u", "s", "_">>)))

ImportResult(p, outcome) ==
    [n |-> lastImport.n + 1, path |-> p, outcome |-> outcome]

\* importSession, lines 150-167, as called by the 'storage:import-session'
\* handler: both throws come before copyFileSync
ImportSession(p) ==
    /\ \A g \in LogNames : writer[g] = "none"
    /\ lastImport.n < MaxImports
    /\ IF ~ValidSessionName(Basename(p))
       THEN /\ lastImport' = ImportResult(p, "invalid")
            /\ UNCHANGED dir
       ELSE IF dir[Basename(p)].exists
       THEN /\ lastImport' = ImportResult(p, "exists")
            /\ UNCHANGED dir
       ELSE /\ dir' = [dir EXCEPT ![Basename(p)] = SourceFile(p)]
            /\ lastImport' = ImportResult(p, "imported")
    /\ UNCHANGED <<writer, written, torn, lastRead, appends>>
    /\ UNCHANGED <<mvars, pvars, rvars, wfails, recording, early>>

StorageNext ==
    \/ CreateSession(PingLogName)
    \/ CreateSession(ModbusLogName)
    \/ \E r \in PingRecords : WriteRecords(PingLogName, PingHeader, r)
    \/ \E r \in ModbusRecords : WriteRecords(ModbusLogName, ModbusHeader, r)
    \/ \E r \in PingRecords :
           \E k \in 1..Len(RecordLine(PingHeader, r)) :
               TornWrite(PingLogName, PingHeader, r, k)
    \/ \E r \in ModbusRecords :
           \E k \in 1..Len(RecordLine(ModbusHeader, r)) :
               TornWrite(ModbusLogName, ModbusHeader, r, k)
    \/ ReadPingSession
    \/ ReadModbusSession
    \/ \E p \in Sources : ImportSession(p)

StorageSpec == Init /\ [][StorageNext]_vars

\* C28: a log that was written whole reads back as the records written to
\* it, in order, field by field: numbers by value, null as null.
C28_RoundTrip ==
    (lastRead.outcome # "none" /\ ~lastRead.tornTail)
        => /\ lastRead.outcome = "resolved"
           /\ lastRead.records =
                  SubSeq(written[lastRead.file], 1, lastRead.wrote)

\* C28 witness: a read gave two records back, one with a null and one
\* with a decimal number, one of them with a quoted ip
C28_Witness ==
    /\ lastRead.outcome = "resolved"
    /\ ~lastRead.tornTail
    /\ Len(lastRead.records) = 2
    /\ lastRead.records = written[lastRead.file]
    /\ \E i \in 1..2 : lastRead.records[i].ip = Str(<<"a", ",", "\"">>)
    /\ \E i \in 1..2, f \in {"response_time_ms", "value"} :
           /\ f \in DOMAIN lastRead.records[i]
           /\ lastRead.records[i][f] = JsNull
    /\ \E i \in 1..2, f \in {"response_time_ms", "value"} :
           /\ f \in DOMAIN lastRead.records[i]
           /\ lastRead.records[i][f] \in {Num(1500), Num(65535000)}


\* C29: the read of a log whose last row was cut short by a crash does not
\* fail and gives exactly the records written whole before that row.
C29_TornTailSkipped ==
    (lastRead.outcome # "none" /\ lastRead.tornTail)
        => /\ lastRead.outcome = "resolved"
           /\ lastRead.records =
                  SubSeq(written[lastRead.file], 1, lastRead.wrote)

\* C30: an import of a source whose name does not end in .csv, or starts
\* with neither ping_ nor modbus_, or is already stored, is rejected and
\* leaves every stored file as it was; an import that succeeds adds the
\* one file of that name and changes no other.
C30_ImportValidated ==
    [][lastImport'.n # lastImport.n =>
         LET imported == Basename(lastImport'.path) IN
         /\ (\/ ~EndsWith(imported, <<".", "c", "s", "v">>)
             \/ ~(\/ StartsWith(imported, <<"p", "i", "n", "g", "_">>)
                  \/ StartsWith(imported,
                                <<"m", "o", "d", "b", "u", "s", "_">>))
             \/ dir[imported].exists)
                => lastImport'.outcome # "imported"
         /\ lastImport'.outcome # "imported" => dir' = dir
         /\ lastImport'.outcome = "imported"
                => /\ ~dir[imported].exists
                   /\ dir'[imported].exists
                   /\ dir'[imported].lines = SourceFile(lastImport'.path).lines
                   /\ \A g \in FileNames \ {imported} : dir'[g] = dir[g]]_vars

\* C30 witness: after an import that succeeded and one rejected for its
\* name, a source of a stored name is rejected and the stored file is
\* still the one imported first
C30_Witness ==
    /\ lastImport.n = 3
    /\ lastImport.outcome = "exists"
    /\ dir[Basename(lastImport.path)].exists
    /\ dir[Basename(lastImport.path)] # SourceFile(lastImport.path)
    /\ Cardinality({g \in FileNames : dir[g].exists}) = 1


\* C31: a tick that passed the guard is classified by its read: when the
\* read succeeds reads goes up by one and lastValue is the value read, when
\* it fails errors and consecutiveErrors go up by one and lastValue stays,
\* and the interval timer is left armed either way; the tick then ends with
\* exactly one record appended and notified, `success` with the value read
\* or `error` with null as the read was.
C31_TickClassifiedByRead ==
    [][\A s \in MIds : \A t \in inflight[s] :
        /\ (t.ph = "read" /\ t \notin inflight'[s]) =>
               /\ (s \in timers) = (s \in timers')
               /\ \E u \in inflight'[s] \ inflight[s] :
                      /\ u.n = t.n
                      /\ \/ /\ u.ph = "writeOk"
                            /\ u.rec.status = "success"
                            /\ u.rec.value # Null
                            /\ sess'[s].stats.reads = sess[s].stats.reads + 1
                            /\ sess'[s].stats.lastValue = u.rec.value
                            /\ sess'[s].stats.errors = sess[s].stats.errors
                         \/ /\ u.ph = "writeErr"
                            /\ u.rec.status = "error"
                            /\ u.rec.value = Null
                            /\ sess'[s].stats.errors = sess[s].stats.errors + 1
                            /\ sess'[s].consecutiveErrors
                                   = sess[s].consecutiveErrors + 1
                            /\ sess'[s].stats.lastValue
                                   = sess[s].stats.lastValue
                            /\ sess'[s].stats.reads = sess[s].stats.reads
        /\ (t.ph \in {"writeOk", "writeErr"} /\ t \notin inflight'[s]) =>
               /\ \A u \in inflight'[s] : u.n # t.n
               /\ log'[s] = Append(log[s], t.rec)
               /\ Len(notes'[s]) = Len(notes[s]) + 1
               /\ notes'[s][Len(notes'[s])].record = t.rec
      ]_vars


\* C32: every tick of a Probe session counts itself in sent, whatever came
\* before; a probe answered alive gives a `success` record with its time,
\* received + 1 and totalTime raised by that time, a probe not answered a
\* `timeout` record with no time and lost + 1, a probe that threw an
\* `error` record with no time and lost + 1; the tick then ends with
\* exactly that record appended and notified, and the interval timer stays
\* armed throughout.
C32_ProbeClassified ==
    [][\A s \in PIds :
        /\ pticks'[s] # pticks[s] =>
               psess'[s].stats =
                   [psess[s].stats EXCEPT !.sent = @ + 1]
        /\ \A t \in pinflight[s] :
            /\ (t.ph = "probe" /\ t \notin pinflight'[s]) =>
                   /\ (s \in ptimers) = (s \in ptimers')
                   /\ psess'[s].stats.sent = psess[s].stats.sent
                   /\ \E u \in pinflight'[s] \ pinflight[s] :
                          /\ u.n = t.n
                          /\ \/ /\ u.rec.status = "success"
                                /\ u.rec.time # Null
                                /\ psess'[s].stats.received
                                       = psess[s].stats.received + 1
                                /\ psess'[s].stats.totalTime
                                       = psess[s].stats.totalTime + u.rec.time
                                /\ psess'[s].stats.lost = psess[s].stats.lost
                             \/ /\ u.rec.status \in {"timeout", "error"}
                                /\ u.rec.time = Null
                                /\ psess'[s].stats.lost
                                       = psess[s].stats.lost + 1
                                /\ psess'[s].stats.received
                                       = psess[s].stats.received
                                /\ psess'[s].stats.totalTime
                                       = psess[s].stats.totalTime
            /\ (t.ph \in {"write", "writeCatch"} /\ t \notin pinflight'[s]) =>
                   /\ \A u \in pinflight'[s] : u.n # t.n
                   /\ plog'[s] = Append(plog[s], t.rec)
                   /\ Len(pnotes'[s]) = Len(pnotes[s]) + 1
                   /\ pnotes'[s][Len(pnotes'[s])].record = t.rec
      ]_vars


\* C33: a session whose start succeeded has had exactly one `connected`
\* notification and any other id none; the step that sends it is the one
\* that registers the session, before any tick and any data notification
\* of it; a successful reconnect sends `reconnected` and no `connected`.
C33_ConnectedOnce ==
    [][\A s \in MIds :
        /\ connNote'[s].conn = IF startState'[s] = "started" THEN 1 ELSE 0
        /\ connNote'[s].conn # connNote[s].conn =>
               /\ s \notin sessions /\ s \in sessions'
               /\ connNote'[s].last = "connected"
               /\ ticks'[s] = 0 /\ inflight'[s] = {}
               /\ notes'[s] = <<>>
        /\ sess'[s].gen # sess[s].gen =>
               /\ connNote'[s].last = "reconnected"
               /\ connNote'[s].conn = connNote[s].conn
      ]_vars

\* C33 witness: a session that has sent data and has reconnected once
C33_Witness ==
    \E s \in MIds :
        /\ startState[s] = "started"
        /\ connNote[s].conn = 1
        /\ connNote[s].last = "reconnected"
        /\ sess[s].gen = 1
        /\ Len(notes[s]) >= 3


\* what a session object holds apart from its transport client and the
\* three fields reconnect() maintains
Kept(se) ==
    [config |-> se.config, writer |-> se.writer, filename |-> se.filename,
     active |-> se.active, interval |-> se.interval, stats |-> se.stats]

\* C34: the step that builds the session object gives it its config, its
\* log writer and its file name, and no later step (tick, reconnect, stop)
\* changes any of the three; a step of reconnect() changes nothing of the
\* session but its client, connected, reconnecting and consecutiveErrors.
C34_LogIdentityFixed ==
    [][\A s \in MIds :
        /\ (s \notin created /\ s \in created') =>
               /\ sess'[s].config = "config"
               /\ sess'[s].writer = "writer"
               /\ sess'[s].filename = "filename"
        /\ s \in created =>
               /\ sess'[s].config = sess[s].config
               /\ sess'[s].writer = sess[s].writer
               /\ sess'[s].filename = sess[s].filename
        /\ (ReconnectStep(s) \/ RetryFired(s)) => Kept(sess'[s]) = Kept(sess[s])
      ]_vars

\* C34 witness: a session that has read, has reconnected after a failed
\* attempt and has read again still has the log it was created with
C34_Witness ==
    \E s \in MIds :
        /\ sess[s].gen = 1
        /\ connNote[s].last = "reconnected"
        /\ sess[s].stats.reads >= 1
        /\ sess[s].stats.errors >= 3
        /\ sess[s].writer = "writer" /\ sess[s].filename = "filename"
        /\ sess[s].config = "config"


\* C35: connected and reconnecting of a session are never both true.
C35_NotConnectedWhileReconnecting ==
    \A s \in MIds : ~(sess[s].connected /\ sess[s].reconnecting)

\* C35 witness: a session that was Connected is Reconnecting, its attempt
\* pending, after a first attempt that failed
C35_Witness ==
    \E s \in MIds :
        /\ Live(s)
        /\ sess[s].reconnecting /\ ~sess[s].connected
        /\ connecting[s] = 1
        /\ connNote[s].disc = 2
        /\ sess[s].stats.errors >= 3


\* C36: an active, registered session that is not connected always has a
\* reconnect attempt in progress or a retry timer pending.
C36_NeverStuckDisconnected ==
    \A s \in MIds :
        (Live(s) /\ ~sess[s].connected) =>
            (AttemptPending(s) \/ retryTimers[s] > 0)

\* C36 witness: an attempt has failed and the session, still active and
\* disconnected, waits for its retry timer with no attempt in progress
C36_Witness ==
    \E s \in MIds :
        /\ Live(s) /\ ~sess[s].connected
        /\ ~AttemptPending(s)
        /\ retryTimers[s] = 1


\* C37: once `reconnected` was sent, the session sends `disconnected` or
\* closes the new transport (other than by stopModbus or stopAll) only when the
\* consecutive read failures counted since that reconnection have reached
\* MAX_CONSECUTIVE_ERRORS; and every `reconnected` follows a `disconnected`
\* sent since the previous `connected` / `reconnected`.
C37_ReconnectedStaysUp ==
    [][\A s \in MIds :
        /\ ( /\ sess[s].gen >= 1
             /\ sess[s].connected
             /\ s \in sessions' /\ sess'[s].active
             /\ \/ connNote'[s].disc > connNote[s].disc
                \/ sess'[s].closes > sess[s].closes )
           => sess[s].consecutiveErrors >= MAX_CONSECUTIVE_ERRORS
        /\ ( /\ connecting'[s] < connecting[s]
             /\ connNote'[s].last = "reconnected" )
           => connNote[s].disc >= 1
      ]_vars


\* C38: consecutiveErrors of a session stays between 0 and
\* MAX_CONSECUTIVE_ERRORS.
C38_ConsecutiveErrorsBounded ==
    \A s \in MIds :
        sess[s].consecutiveErrors \in 0..MAX_CONSECUTIVE_ERRORS


\* ------------------------------------- a session's ticks and its log file
\* The appends of one session's ticks, each of them a
\* `await writeModbusRecord(session.writer, record)` (or writePingRecord)
\* followed, when it resolves, by the send of the data notification that
\* carries the record.  The ticks of a session are not serialised, so
\* several appends of one writer can be pending; the file system applies
\* them and completes them in an order of its own.

\* the tick calls writer.writeRecords([record]): the writer decides at the
\* call whether the text starts with the header and replaces the file
\* (no write of this writer has completed yet) or is appended
IssueAppend(f, header, record) ==
    /\ writer[f] \in {"new", "appending"}
    /\ Len(written[f]) + Cardinality(appends) < MaxAppends
    /\ appends' = appends \cup
           {[file |-> f,
             n |-> Len(written[f]) + Cardinality(appends) + 1,
             rec |-> record,
             replace |-> writer[f] = "new",
             text |-> IF writer[f] = "new"
                      THEN <<HeaderLine(header), RecordLine(header, record)>>
                      ELSE <<RecordLine(header, record)>>,
             landed |-> FALSE]}
    /\ UNCHANGED <<dir, writer, written, torn, lastRead, lastImport>>
    /\ UNCHANGED <<mvars, pvars, rvars, wfails, recording, early>>

\* the text of a pending write reaches the file
AppendLands(a) ==
    /\ a \in appends
    /\ ~a.landed
    /\ dir' = [dir EXCEPT ![a.file] =
                  [exists |-> TRUE,
                   lines |-> IF a.replace THEN a.text ELSE @.lines \o a.text]]
    /\ appends' = (appends \ {a}) \cup {[a EXCEPT !.landed = TRUE]}
    /\ UNCHANGED <<writer, written, torn, lastRead, lastImport>>
    /\ UNCHANGED <<mvars, pvars, rvars, wfails, recording, early>>

\* the promise of a write resolves: the writer appends from now on, and the
\* tick that awaited it sends its record in the data notification
AppendResolves(a) ==
    /\ a \in appends
    /\ a.landed
    /\ writer' = [writer EXCEPT ![a.file] = "appending"]
    /\ written' = [written EXCEPT ![a.file] = Append(@, a.rec)]
    /\ appends' = appends \ {a}
    /\ UNCHANGED <<dir, torn, lastRead, lastImport>>
    /\ UNCHANGED <<mvars, pvars, rvars, wfails, recording, early>>

AppendNext ==
    \/ CreateSession(PingLogName)
    \/ CreateSession(ModbusLogName)
    \/ \E r \in PingRecords : IssueAppend(PingLogName, PingHeader, r)
    \/ \E r \in ModbusRecords : IssueAppend(ModbusLogName, ModbusHeader, r)
    \/ \E a \in appends : AppendLands(a)
    \/ \E a \in appends : AppendResolves(a)

AppendSpec == Init /\ [][AppendNext]_vars

\* the rows of the records of a session's data notifications, in the order
\* of the notifications
NotifiedRows(f) ==
    [i \in 1..Len(written[f]) |->
        RecordLine(IF f = PingLogName THEN PingHeader ELSE ModbusHeader,
                   written[f][i])]

\* C39: the records carried by a session's data notifications are the
\* records of its log, in the same order: at any moment the notified records
\* are the first rows of the log, and all of its rows once no append of the
\* session is pending.
C39_NotifiedIsLogged ==
    \A f \in LogNames :
        written[f] # <<>> =>
            /\ Len(dir[f].lines) > Len(written[f])
            /\ SubSeq(dir[f].lines, 2, Len(written[f]) + 1) = NotifiedRows(f)
            /\ appends = {} => Len(dir[f].lines) = Len(written[f]) + 1


\* C40: once stopModbus has returned for a session, no `disconnected` or
\* `reconnected` is sent for it and its client, connected, reconnecting and
\* consecutiveErrors no longer change, whatever was in flight at the stop.
C40_StoppedIsFrozen ==
    [][\A s \in MIds :
        (s \in created /\ ~sess[s].active) =>
            /\ connNote'[s] = connNote[s]
            /\ sess'[s].gen = sess[s].gen
            /\ sess'[s].connected = sess[s].connected
            /\ sess'[s].reconnecting = sess[s].reconnecting
            /\ sess'[s].consecutiveErrors = sess[s].consecutiveErrors
      ]_vars

====
